---- MODULE Spec2Model ----
(***************************************************************************)
(* Model of src/app.py: the Urban Heatmap Shiny application.               *)
(*                                                                         *)
(* Temperatures are fixed-point integers in units of 1/Scale degree, so    *)
(* 7.2 is 72000 and the threshold 9 of get_color is 9 * Scale.             *)
(* Three value universes are kept apart so that the json.dumps /           *)
(* json.loads round trip and the injection of the JSON text as a           *)
(* JavaScript literal are conversions and not the identity:                *)
(*   Python values   [t |-> "None"] [t |-> "float", n] [t |-> "str", s]    *)
(*   JSON/JS values  [t |-> "null"] [t |-> "number", n] [t |-> "string", s]*)
(*                   and [t |-> "undefined"] for a missing JS property.    *)
(***************************************************************************)
EXTENDS Integers, Sequences, FiniteSets, TLC

VARIABLES
    original_geojson,           \* module global, loaded at line 11
    delta_df,                   \* module global, loaded at line 14
    input_selected_variable,    \* input.selected_variable()
    input_country,              \* input.country()
    calc_geojson_colored,       \* cached value of the reactive.calc geojson_colored
    calc_selected_country_data, \* cached value of the reactive.calc selected_country_data
    out_mymap,                  \* what the output "mymap" currently shows
    out_scatterchart,           \* what the output "scatterchart" currently shows
    popup,                      \* the popup opened by the last click on the map
    executed,                   \* reactive functions run by the last step
    first_geojson_colored,      \* history: value of the first run of geojson_colored
    color_arg,                  \* argument of a direct call of get_color
    color_ret                   \* its result ("" before the call)

vars == <<original_geojson, delta_df, input_selected_variable, input_country,
          calc_geojson_colored, calc_selected_country_data, out_mymap,
          out_scatterchart, popup, executed, first_geojson_colored,
          color_arg, color_ret>>

Scale == 10 ^ 4

\* ---------------------------------------------------------------- bounds
MaxFeatures == 2
MaxRows == 2
ProbeMax == 24

\* ---------------------------------------------------------------- values
PyNone == [t |-> "None"]
PyFloat(n) == [t |-> "float", n |-> n]
PyStr(s) == [t |-> "str", s |-> s]

JsNull == [t |-> "null"]
JsNumber(n) == [t |-> "number", n |-> n]
JsString(s) == [t |-> "string", s |-> s]
JsUndefined == [t |-> "undefined"]

\* dict.get(key, default)
dict_get(d, key, default) == IF key \in DOMAIN d THEN d[key] ELSE default

\* ---------------------------------------------------------------- lines 18-27
variable_labels ==
    [k \in {"DeltaT_Winter_Day_mean", "DeltaT_Winter_Night_mean",
            "DeltaT_Spring_Day_mean", "DeltaT_Spring_Night_mean",
            "DeltaT_Summer_Day_mean", "DeltaT_Summer_Night_mean",
            "DeltaT_Fall_Day_mean", "DeltaT_Fall_Night_mean"} |->
       CASE k = "DeltaT_Winter_Day_mean" -> "Winter (Day)"
         [] k = "DeltaT_Winter_Night_mean" -> "Winter (Night)"
         [] k = "DeltaT_Spring_Day_mean" -> "Spring (Day)"
         [] k = "DeltaT_Spring_Night_mean" -> "Spring (Night)"
         [] k = "DeltaT_Summer_Day_mean" -> "Summer (Day)"
         [] k = "DeltaT_Summer_Night_mean" -> "Summer (Night)"
         [] k = "DeltaT_Fall_Day_mean" -> "Fall (Day)"
         [] k = "DeltaT_Fall_Night_mean" -> "Fall (Night)"]

\* selected= of the two input_select controls (lines 59 and 73)
default_selected_variable == "DeltaT_Summer_Night_mean"
default_country == "Karlsruhe [DEU]"

\* ---------------------------------------------------------------- lines 30-50
get_color_ge(value) ==
    IF value.t = "None" THEN "#cccccc"
    ELSE IF value.n > 9 * Scale THEN "#b35806"
    ELSE IF value.n > 6 * Scale THEN "#e08214"
    ELSE IF value.n > 3 * Scale THEN "#fdb863"
    ELSE IF value.n >= 0 THEN "#fee0b6"
    ELSE IF value.n = 0 THEN "#f7f7f7"
    ELSE IF value.n > -3 * Scale THEN "#d8daeb"
    ELSE IF value.n > -6 * Scale THEN "#b2abd2"
    ELSE IF value.n > -9 * Scale THEN "#8073ac"
    ELSE "#542788"

get_color(value) ==
    IF value.t = "None" THEN "#cccccc"
    ELSE IF value.n > 9 * Scale THEN "#b35806"
    ELSE IF value.n > 6 * Scale THEN "#e08214"
    ELSE IF value.n > 3 * Scale THEN "#fdb863"
    ELSE IF value.n > 0 THEN "#fee0b6"
    ELSE IF value.n = 0 THEN "#f7f7f7"
    ELSE IF value.n > -3 * Scale THEN "#d8daeb"
    ELSE IF value.n > -6 * Scale THEN "#b2abd2"
    ELSE IF value.n > -9 * Scale THEN "#8073ac"
    ELSE "#542788"

\* ---------------------------------------------------------------- json
\* json.dumps on the values json.load can produce: None -> null,
\* float -> number, str -> string; dict and list keep their shape.
json_dumps_value(v) ==
    CASE v.t = "None" -> JsNull
      [] v.t = "float" -> JsNumber(v.n)
      [] v.t = "str" -> JsString(v.s)

json_loads_value(j) ==
    CASE j.t = "null" -> PyNone
      [] j.t = "number" -> PyFloat(j.n)
      [] j.t = "string" -> PyStr(j.s)

json_dumps(obj) ==
    [features |-> [i \in DOMAIN obj.features |->
        [geometry |-> obj.features[i].geometry,
         properties |-> [k \in DOMAIN obj.features[i].properties |->
                            json_dumps_value(obj.features[i].properties[k])]]]]

json_loads(text) ==
    [features |-> [i \in DOMAIN text.features |->
        [geometry |-> text.features[i].geometry,
         properties |-> [k \in DOMAIN text.features[i].properties |->
                            json_loads_value(text.features[i].properties[k])]]]]

\* ---------------------------------------------------------------- lines 193-214
\* The features of geojson after the loop of lines 209-212.  The list
\* `values` and min_val/max_val (lines 198-207) are computed and never
\* used; they do not appear here.
\* colored_features leaving out the features without a value, the way the
\* list `values` of lines 198-202 is built
colored_features_with_value(geojson, selected_var) ==
    LET kept == SelectSeq(geojson.features,
                          LAMBDA f : dict_get(f.properties, selected_var, PyNone) # PyNone)
    IN [i \in DOMAIN kept |->
        LET feature == kept[i]
            val == dict_get(feature.properties, selected_var, PyFloat(0))
            color == get_color(IF val # PyNone THEN val ELSE PyFloat(0))
        IN [geometry |-> feature.geometry,
            properties |-> [k \in DOMAIN feature.properties \cup {"color"} |->
                               IF k = "color" THEN PyStr(color)
                               ELSE feature.properties[k]]]]

colored_features(geojson, selected_var) ==
    [i \in DOMAIN geojson.features |->
        LET feature == geojson.features[i]
            val == dict_get(feature.properties, selected_var, PyFloat(0))
            color == get_color(IF val # PyNone THEN val ELSE PyFloat(0))
        IN [geometry |-> feature.geometry,
            properties |-> [k \in DOMAIN feature.properties \cup {"color"} |->
                               IF k = "color" THEN PyStr(color)
                               ELSE feature.properties[k]]]]

\* geojson_colored working on original_geojson itself (no copy at line 195)
geojson_colored_inplace(original, selected_var) ==
    LET geojson == [features |-> colored_features(original, selected_var)]
    IN [original_geojson |-> geojson, value |-> json_dumps(geojson)]

\* One run of geojson_colored: `value` is what it returns and
\* `original_geojson` is the module global after the run.  Line 195 makes
\* geojson a fresh object, so the loop's assignments do not reach the global.
geojson_colored(original, selected_var) ==
    LET copy == json_loads(json_dumps(original))
        geojson == [features |-> colored_features(copy, selected_var)]
    IN [original_geojson |-> original, value |-> json_dumps(geojson)]

\* ---------------------------------------------------------------- lines 216-332
\* What mymap hands to the browser: the JSON text evaluated as the
\* JavaScript literal `geojson` (line 284), the variable name injected into
\* myClick (line 290) and the colour the style function gives each feature
\* (lines 300-305).
mymap_default_var(geojson_text, selected_var) ==
    [geojson |-> geojson_text,
     popup_var |-> default_selected_variable,
     style |-> [i \in DOMAIN geojson_text.features |->
                   dict_get(geojson_text.features[i].properties, "color", JsUndefined)]]

mymap(geojson_text, selected_var) ==
    [geojson |-> geojson_text,
     popup_var |-> selected_var,
     style |-> [i \in DOMAIN geojson_text.features |->
                   dict_get(geojson_text.features[i].properties, "color", JsUndefined)]]

\* Number.prototype.toFixed(3): sign, then the magnitude rounded to the
\* nearest thousandth (the larger one on a tie), integer part, ".", three
\* digits.  The only tie among the sample values is 0.0625, which a
\* double holds exactly.
toFixed3(n) ==
    LET x == IF n < 0 THEN -n ELSE n
        q == (x * 1000 + Scale \div 2) \div Scale
        frac == q % 1000
        digits == IF frac < 10 THEN "00" \o ToString(frac)
                  ELSE IF frac < 100 THEN "0" \o ToString(frac)
                  ELSE ToString(frac)
    IN (IF n < 0 THEN "-" ELSE "") \o ToString(q \div 1000) \o "." \o digits

\* String concatenation of a JavaScript value
js_to_string(v) ==
    CASE v.t = "string" -> v.s
      [] v.t = "number" -> ToString(v.n)
      [] v.t = "null" -> "null"
      [] v.t = "undefined" -> "undefined"

\* lines 287-296: the popup text bound by the click handler
myClick(feature, popup_var) ==
    LET props == feature.properties
        val == dict_get(props, popup_var, JsUndefined)
        formattedVal == IF val # JsNull /\ val # JsUndefined
                        THEN toFixed3(val.n) ELSE "N/A"
    IN "<b>Region:</b> " \o js_to_string(dict_get(props, "UC_NM_MN", JsUndefined))
       \o "<br>" \o "<b>ΔT Value:</b> " \o formattedVal \o "°C"

NoPopup == [shown |-> FALSE]

\* ---------------------------------------------------------------- lines 334-338
selected_country_data_first(df, selected_country) ==
    LET country_data == SelectSeq(df, LAMBDA r : r["UC_NM_MN"] = selected_country)
    IN IF country_data = <<>> THEN <<>> ELSE <<Head(country_data)>>

selected_country_data(df, selected_country) ==
    SelectSeq(df, LAMBDA r : r["UC_NM_MN"] = selected_country)

\* ---------------------------------------------------------------- lines 342-363
seasons == <<"Winter", "Spring", "Summer", "Fall">>
day_cols == [i \in 1..4 |-> "DeltaT_" \o seasons[i] \o "_Day_mean"]
night_cols == [i \in 1..4 |-> "DeltaT_" \o seasons[i] \o "_Night_mean"]

\* df[cols].values.flatten(): row-major, Len(cols) entries per row
flatten(df, cols) ==
    [j \in 1..(Len(df) * Len(cols)) |->
        df[((j - 1) \div Len(cols)) + 1][cols[((j - 1) % Len(cols)) + 1]]]

\* The figure scatterchart returns, or the IndexError of line 355 when
\* day_values has fewer entries than seasons.
scatterchart(df, country) ==
    LET day_values == flatten(df, day_cols)
        night_values == flatten(df, night_cols)
    IN IF \E i \in DOMAIN seasons : i > Len(day_values) \/ i > Len(night_values)
       THEN [status |-> "error", error |-> "IndexError"]
       ELSE [status |-> "ok",
             scatter |-> [j \in DOMAIN day_values |->
                             <<day_values[j], night_values[j]>>],
             text |-> [i \in DOMAIN seasons |->
                          [x |-> day_values[i] + Scale \div 10,
                           y |-> night_values[i],
                           s |-> seasons[i]]],
             title |-> "ΔT: Day vs Night (" \o country \o ")"]

\* ---------------------------------------------------------------- reactive graph
\* What each reactive function reads: input.selected_variable() at lines
\* 196 and 290, geojson_colored() at 284, input.country() at 336 and 359,
\* selected_country_data() at 343.
Reads_mymap_country ==
    [geojson_colored |-> {"selected_variable"},
     mymap |-> {"geojson_colored", "selected_variable", "country"},
     selected_country_data |-> {"country"},
     scatterchart |-> {"selected_country_data", "country"}]

Reads ==
    [geojson_colored |-> {"selected_variable"},
     mymap |-> {"geojson_colored", "selected_variable"},
     selected_country_data |-> {"country"},
     scatterchart |-> {"selected_country_data", "country"}]

Dependents(x) == {n \in DOMAIN Reads : x \in Reads[n]}

\* The reactive functions invalidated by a change of input x
Invalidated(x) == Dependents(x) \cup UNION {Dependents(n) : n \in Dependents(x)}

\* ---------------------------------------------------------------- inputs
\* Contents UCD_DeltaT.geojson may have: up to MaxFeatures features drawn
\* from two sample regions that share a name.  The second lacks a key and
\* stores null twice; the values sit on and around the thresholds of
\* get_color.
FeatureKarlsruhe ==
    [geometry |-> "polygon-1",
     properties |->
        ("UC_NM_MN" :> PyStr("Karlsruhe [DEU]"))
        @@ ("DeltaT_Winter_Day_mean" :> PyFloat(-90000))
        @@ ("DeltaT_Winter_Night_mean" :> PyFloat(-30000))
        @@ ("DeltaT_Spring_Day_mean" :> PyFloat(0))
        @@ ("DeltaT_Spring_Night_mean" :> PyFloat(30000))
        @@ ("DeltaT_Summer_Day_mean" :> PyFloat(90006))
        @@ ("DeltaT_Summer_Night_mean" :> PyFloat(72000))
        @@ ("DeltaT_Fall_Day_mean" :> PyFloat(60000))
        @@ ("DeltaT_Fall_Night_mean" :> PyFloat(90000))]

FeatureKarlsruheGaps ==
    [geometry |-> "polygon-2",
     properties |->
        ("UC_NM_MN" :> PyStr("Karlsruhe [DEU]"))
        @@ ("DeltaT_Winter_Night_mean" :> PyNone)
        @@ ("DeltaT_Spring_Day_mean" :> PyFloat(-4))
        @@ ("DeltaT_Spring_Night_mean" :> PyFloat(625))
        @@ ("DeltaT_Summer_Day_mean" :> PyFloat(-123456))
        @@ ("DeltaT_Summer_Night_mean" :> PyNone)
        @@ ("DeltaT_Fall_Day_mean" :> PyFloat(25000))
        @@ ("DeltaT_Fall_Night_mean" :> PyFloat(-59999))]

FeaturePool == {FeatureKarlsruhe, FeatureKarlsruheGaps}

SeqsUpTo(S, n) == UNION {[1..k -> S] : k \in 0..n}

GeojsonInputs == {[features |-> fs] : fs \in SeqsUpTo(FeaturePool, MaxFeatures)}

\* Contents UCD_DeltaT.csv may have: up to MaxRows rows drawn from three
\* sample rows.  Two rows carry the default region name; the third a name
\* that differs from it only in case.
Row(name, base) ==
    ("UC_NM_MN" :> name)
    @@ ("DeltaT_Winter_Day_mean" :> base + 1000)
    @@ ("DeltaT_Winter_Night_mean" :> base - 12000)
    @@ ("DeltaT_Spring_Day_mean" :> base + 23000)
    @@ ("DeltaT_Spring_Night_mean" :> base - 4000)
    @@ ("DeltaT_Summer_Day_mean" :> base + 45000)
    @@ ("DeltaT_Summer_Night_mean" :> base + 16000)
    @@ ("DeltaT_Fall_Day_mean" :> base + 7000)
    @@ ("DeltaT_Fall_Night_mean" :> base - 8000)

RowPool == {Row("Karlsruhe [DEU]", 10000), Row("Karlsruhe [DEU]", 30000),
            Row("karlsruhe [deu]", -20000)}

DataFrameInputs == SeqsUpTo(RowPool, MaxRows)

\* Values a client can send for input.country: the default, a name that
\* differs from it in case and one that differs by a trailing blank (no
\* sample row carries the last)
CountryInputs == {"Karlsruhe [DEU]", "karlsruhe [deu]", "Karlsruhe [DEU] "}

\* Arguments of a direct call of get_color: None, every half degree
\* within ProbeMax half degrees of zero, and each threshold's neighbours.
ProbeValues ==
    {PyNone}
    \cup {PyFloat(k * (Scale \div 2)) : k \in (-ProbeMax)..ProbeMax}
    \cup {PyFloat(b * Scale + d) : b \in {-9, -6, -3, 0, 3, 6, 9}, d \in {-1, 1}}

\* ---------------------------------------------------------------- start
\* The session after the first flush: both outputs rendered from the
\* defaults of the two input_select controls.
InitApp(geo, df) ==
    LET run == geojson_colored(geo, default_selected_variable)
        rows == selected_country_data(df, default_country)
    IN /\ original_geojson = run.original_geojson
       /\ delta_df = df
       /\ input_selected_variable = default_selected_variable
       /\ input_country = default_country
       /\ calc_geojson_colored = run.value
       /\ calc_selected_country_data = rows
       /\ out_mymap = mymap(run.value, default_selected_variable)
       /\ out_scatterchart = scatterchart(rows, default_country)
       /\ popup = NoPopup
       /\ executed = DOMAIN Reads
       /\ first_geojson_colored = run.value

Init ==
    /\ \E geo \in GeojsonInputs : \E df \in DataFrameInputs : InitApp(geo, df)
    /\ color_arg = PyNone
    /\ color_ret = ""

\* ---------------------------------------------------------------- steps
\* Re-execution of the invalidated reactive functions.  An output pulls
\* the calc it reads; a calc that is not invalidated returns its cache.
Flush(inv) ==
    LET run == geojson_colored(original_geojson, input_selected_variable')
    IN /\ original_geojson' = IF "geojson_colored" \in inv
                              THEN run.original_geojson ELSE original_geojson
       /\ calc_geojson_colored' = IF "geojson_colored" \in inv
                                  THEN run.value ELSE calc_geojson_colored
       /\ out_mymap' = IF "mymap" \in inv
                       THEN mymap(calc_geojson_colored', input_selected_variable')
                       ELSE out_mymap
       /\ popup' = IF "mymap" \in inv THEN NoPopup ELSE popup
       /\ calc_selected_country_data' =
              IF "selected_country_data" \in inv
              THEN selected_country_data(delta_df, input_country')
              ELSE calc_selected_country_data
       /\ out_scatterchart' =
              IF "scatterchart" \in inv
              THEN scatterchart(calc_selected_country_data', input_country')
              ELSE out_scatterchart
       /\ executed' = inv

\* The user picks another entry of the season dropdown (line 59)
SetVariable(v) ==
    /\ v # input_selected_variable
    /\ input_selected_variable' = v
    /\ input_country' = input_country
    /\ Flush(Invalidated("selected_variable"))
    /\ UNCHANGED <<delta_df, first_geojson_colored, color_arg, color_ret>>

\* The client sends another value for the region dropdown (line 73)
SetCountry(c) ==
    /\ c # input_country
    /\ input_country' = c
    /\ input_selected_variable' = input_selected_variable
    /\ Flush(Invalidated("country"))
    /\ UNCHANGED <<delta_df, first_geojson_colored, color_arg, color_ret>>

\* The user clicks feature i of the rendered map (lines 287-296)
Click(i) ==
    /\ i \in DOMAIN out_mymap.geojson.features
    /\ popup' = [shown |-> TRUE, feature |-> i,
                 html |-> myClick(out_mymap.geojson.features[i], out_mymap.popup_var)]
    /\ executed' = {}
    /\ UNCHANGED <<original_geojson, delta_df, input_selected_variable,
                   input_country, calc_geojson_colored,
                   calc_selected_country_data, out_mymap, out_scatterchart,
                   first_geojson_colored, color_arg, color_ret>>

Next ==
    \/ \E v \in DOMAIN variable_labels : SetVariable(v)
    \/ \E c \in CountryInputs : SetCountry(c)
    \/ \E i \in 1..(MaxFeatures + 1) : Click(i)

Spec == Init /\ [][Next]_vars

\* A direct call of get_color on one argument
InitColor ==
    /\ InitApp([features |-> <<>>], <<>>)
    /\ color_arg \in ProbeValues
    /\ color_ret = ""

CallGetColor ==
    /\ color_ret = ""
    /\ color_ret' = get_color(color_arg)
    /\ UNCHANGED <<original_geojson, delta_df, input_selected_variable,
                   input_country, calc_geojson_colored,
                   calc_selected_country_data, out_mymap, out_scatterchart,
                   popup, executed, first_geojson_colored, color_arg>>

NextColor == CallGetColor

SpecColor == InitColor /\ [][NextColor]_vars

\* ======================================================================
\* Properties
\* ======================================================================

\* Row r of the threshold table as the intervals it covers
ThresholdRowMatches(n, r) ==
    CASE r = 1 -> n > 9 * Scale
      [] r = 2 -> 6 * Scale < n /\ n <= 9 * Scale
      [] r = 3 -> 3 * Scale < n /\ n <= 6 * Scale
      [] r = 4 -> 0 < n /\ n <= 3 * Scale
      [] r = 5 -> n = 0
      [] r = 6 -> -3 * Scale < n /\ n < 0
      [] r = 7 -> -6 * Scale < n /\ n <= -3 * Scale
      [] r = 8 -> -9 * Scale < n /\ n <= -6 * Scale
      [] r = 9 -> n <= -9 * Scale

ThresholdRowColor ==
    <<"#b35806", "#e08214", "#fdb863", "#fee0b6", "#f7f7f7",
      "#d8daeb", "#b2abd2", "#8073ac", "#542788">>

\* C1: get_color returns #cccccc for the absent value and, for a number,
\* the colour of the one row of the threshold table whose interval holds
\* it; exactly one interval holds each number, the thresholds 9, 6, 3, 0,
\* -3, -6 and -9 included.
C1_GetColorTable ==
    color_ret # "" =>
        IF color_arg = PyNone
        THEN color_ret = "#cccccc"
        ELSE /\ Cardinality({r \in 1..9 : ThresholdRowMatches(color_arg.n, r)}) = 1
             /\ \A r \in 1..9 : ThresholdRowMatches(color_arg.n, r)
                                  => color_ret = ThresholdRowColor[r]

C1_Witness == color_arg = PyFloat(0) /\ color_ret = "#f7f7f7"

\* The value of the selected variable a region of the static collection
\* carries: absent when the key is missing or null is stored
RegionValue(i) ==
    dict_get(original_geojson.features[i].properties,
             input_selected_variable, PyNone)

ColorOut(i) == dict_get(calc_geojson_colored.features[i].properties,
                        "color", JsUndefined)

\* C2: in the output of geojson_colored every region without a value for
\* the selected variable (key missing or null) has colour #cccccc and
\* every region with a number has get_color of that number.
C2_FallbackColour ==
    /\ Len(calc_geojson_colored.features) = Len(original_geojson.features)
    /\ \A i \in DOMAIN original_geojson.features :
          IF RegionValue(i) = PyNone
          THEN ColorOut(i) = JsString("#cccccc")
          ELSE ColorOut(i) = JsString(get_color(RegionValue(i)))

\* C3: the output of geojson_colored has one feature per feature of the
\* static collection, in the same order (same geometry and same region
\* name at each position), and every output feature has a color property.
C3_SameRegionsInOrder ==
    /\ Len(calc_geojson_colored.features) = Len(original_geojson.features)
    /\ \A i \in DOMAIN original_geojson.features :
          /\ calc_geojson_colored.features[i].geometry
                = original_geojson.features[i].geometry
          /\ dict_get(calc_geojson_colored.features[i].properties,
                      "UC_NM_MN", JsUndefined)
                = JsString(original_geojson.features[i].properties["UC_NM_MN"].s)
          /\ "color" \in DOMAIN calc_geojson_colored.features[i].properties

C3_Witness ==
    /\ input_selected_variable = "DeltaT_Winter_Day_mean"
    /\ Len(original_geojson.features) = 2
    /\ original_geojson.features[1] # original_geojson.features[2]
    /\ original_geojson.features[1].properties["UC_NM_MN"]
          = original_geojson.features[2].properties["UC_NM_MN"]
    /\ Len(calc_geojson_colored.features) = 2

\* C4: no step changes original_geojson, none of its features ever has a
\* color field, and every run of geojson_colored for the variable of the
\* first run returns the value the first run returned, whatever was
\* selected in between.
C4_StaticSourceUntouched ==
    /\ [](\A i \in DOMAIN original_geojson.features :
             "color" \notin DOMAIN original_geojson.features[i].properties)
    /\ [][/\ original_geojson' = original_geojson
          /\ input_selected_variable' = default_selected_variable
                => calc_geojson_colored' = first_geojson_colored]_vars

C4_Witness ==
    /\ executed = {"geojson_colored", "mymap"}
    /\ input_selected_variable = default_selected_variable
    /\ Len(original_geojson.features) = 2

\* C5: when no row matches the selected region name, scatterchart returns
\* a chart without points instead of raising.
C5_EmptyChartNoError ==
    calc_selected_country_data = <<>> =>
        /\ out_scatterchart.status = "ok"
        /\ out_scatterchart.scatter = <<>>

\* Positions of the rows of delta_df whose name is the selected one
MatchingRows == {i \in DOMAIN delta_df : delta_df[i]["UC_NM_MN"] = input_country}

\* C6: selected_country_data holds exactly the rows of delta_df whose
\* UC_NM_MN equals the selected name, in dataset order: the k-th row of
\* the result is the k-th matching row; no matching row gives the empty
\* result.
C6_ExactRowFilter ==
    /\ Len(calc_selected_country_data) = Cardinality(MatchingRows)
    /\ \A i \in MatchingRows :
          calc_selected_country_data[Cardinality({j \in MatchingRows : j <= i})]
             = delta_df[i]

C6_Witness ==
    /\ executed = {"selected_country_data", "scatterchart"}
    /\ Len(delta_df) = 2
    /\ Len(calc_selected_country_data) = 2
    /\ calc_selected_country_data[1] # calc_selected_country_data[2]

\* A chart that shows region c and nothing else: if it was drawn, its
\* title names c and each of its points is a (day, night) pair of one
\* season of a row of c.
ChartShowsOnly(chart, c) ==
    chart.status = "ok" =>
        /\ chart.title = "ΔT: Day vs Night (" \o c \o ")"
        /\ \A j \in DOMAIN chart.scatter :
              \E r \in DOMAIN delta_df : \E k \in 1..4 :
                 /\ delta_df[r]["UC_NM_MN"] = c
                 /\ chart.scatter[j] = <<delta_df[r][day_cols[k]],
                                         delta_df[r][night_cols[k]]>>

\* C7: a step that changes the region selection leaves the selected
\* variable, the colored geometry, the rendered map and its popup as they
\* were, runs neither geojson_colored nor mymap, and leaves a chart that
\* shows the new region only; a step that changes the selected variable
\* leaves the region selection, the filtered rows and the chart as they
\* were and runs neither selected_country_data nor scatterchart.
C7_SelectionIndependence ==
    [][/\ input_country' # input_country =>
             /\ UNCHANGED <<input_selected_variable, calc_geojson_colored,
                            out_mymap, popup>>
             /\ executed' \cap {"geojson_colored", "mymap"} = {}
             /\ ChartShowsOnly(out_scatterchart', input_country')
       /\ input_selected_variable' # input_selected_variable =>
             /\ UNCHANGED <<input_country, calc_selected_country_data,
                            out_scatterchart>>
             /\ executed' \cap {"selected_country_data", "scatterchart"} = {}
      ]_vars

C7_Witness ==
    /\ executed = {"selected_country_data", "scatterchart"}
    /\ input_country = "karlsruhe [deu]"
    /\ input_selected_variable # default_selected_variable
    /\ out_scatterchart.status = "ok"
    /\ popup # NoPopup

\* C8: the popup of a clicked region reads the region's name and, for the
\* selected variable, the original value with three decimals followed by
\* °C when it is a number (7.2 gives "7.200°C" on a region coloured
\* #e08214), or the text "N/A" when the value is null or undefined.
C8_PopupText ==
    popup # NoPopup =>
        LET props == original_geojson.features[popup.feature].properties
            val == dict_get(props, input_selected_variable, PyNone)
            head == "<b>Region:</b> " \o props["UC_NM_MN"].s
                    \o "<br><b>ΔT Value:</b> "
        IN /\ val # PyNone => popup.html = head \o toFixed3(val.n) \o "°C"
           /\ val = PyFloat(72000) =>
                 /\ popup.html = head \o "7.200°C"
                 /\ out_mymap.style[popup.feature] = JsString("#e08214")
           /\ val = PyNone => popup.html = head \o "N/A"

\* C9: whenever the row filter passes at least one row, the chart has
\* exactly four points, the i-th being (day, night) of season i of the
\* region in the order Winter, Spring, Summer, Fall, and the i-th label is
\* the i-th season's name placed at the i-th point.  (No row at all is the
\* case of C5.)
C9_FourLabelledPoints ==
    Len(calc_selected_country_data) >= 1 =>
        /\ out_scatterchart.status = "ok"
        /\ Len(out_scatterchart.scatter) = 4
        /\ \A i \in 1..4 :
              /\ out_scatterchart.scatter[i]
                    = <<calc_selected_country_data[1][day_cols[i]],
                        calc_selected_country_data[1][night_cols[i]]>>
              /\ out_scatterchart.text[i].s = seasons[i]
              /\ out_scatterchart.text[i].x
                    = out_scatterchart.scatter[i][1] + Scale \div 10
              /\ out_scatterchart.text[i].y = out_scatterchart.scatter[i][2]

\* The rendered map belongs to variable v: the popup reads v and every
\* region's colour is the one geojson_colored derives from the region's
\* value of v.
MapShowsOnly(map, v) ==
    /\ map.popup_var = v
    /\ Len(map.style) = Len(original_geojson.features)
    /\ Len(map.geojson.features) = Len(original_geojson.features)
    /\ \A i \in DOMAIN original_geojson.features :
          LET val == dict_get(original_geojson.features[i].properties, v, PyNone)
          IN /\ map.style[i]
                   = JsString(get_color(IF val = PyNone THEN PyFloat(0) ELSE val))
             /\ dict_get(map.geojson.features[i].properties, "color", JsUndefined)
                   = map.style[i]

\* C10: the session starts with DeltaT_Summer_Night_mean and
\* "Karlsruhe [DEU]" selected, and in every state the rendered map shows
\* colours and a popup variable of the current selected variable and a
\* rendered chart shows rows and a title of the current region name.
C10_ViewsFollowSelections ==
    /\ input_selected_variable = "DeltaT_Summer_Night_mean"
    /\ input_country = "Karlsruhe [DEU]"
    /\ [](/\ MapShowsOnly(out_mymap, input_selected_variable)
          /\ ChartShowsOnly(out_scatterchart, input_country)
          /\ \A k \in DOMAIN calc_selected_country_data :
                calc_selected_country_data[k]["UC_NM_MN"] = input_country)

C10_Witness ==
    /\ input_selected_variable = "DeltaT_Fall_Day_mean"
    /\ input_country = "karlsruhe [deu]"
    /\ Len(original_geojson.features) = 2
    /\ out_scatterchart.status = "ok"

====
